---- MODULE Spec2Model ----
(***************************************************************************)
(* State-machine model of the LP8755 regulator driver                      *)
(* (drivers/regulator/lp8755.c): chip bring-up (lp8755_probe), teardown    *)
(* (lp8755_remove), the threaded interrupt handler (lp8755_irq_handler)    *)
(* and the per-rail operations (lp8755_buck_ops), over a byte-wide         *)
(* register file.                                                          *)
(***************************************************************************)
EXTENDS Integers, Sequences, FiniteSets, TLC

(***************************************************************************)
(* Bounds of the model                                                     *)
(***************************************************************************)
\* how many status flags the hardware raises in one run
MaxRaises == 1
\* how many status flags the hardware raises in one run of FairSpec
MaxFairRaises == 2
\* how many bus transactions may fail in one run
MaxBusFail == 1
\* how many rail operations are applied in one run of RailSpec
MaxRailOps == 1

(***************************************************************************)
(* Program constants                                                       *)
(***************************************************************************)
LP8755_BUCK_MAX == 6
MPHASE_CONF_MAX == 9
LP8755_BUCK_EN_M == 128
LP8755_BUCK_LINEAR_OUT_MAX == 118
LP8755_BUCK_VOUT_M == 127
REG_FPWM == 6
REG_FLAG0 == 13
REG_FLAG1 == 14
REG_INTMASK == 15
REG_GENERAL == 16
REG_MPHASE == 61
REGULATOR_MODE_FAST == 1
REGULATOR_MODE_NORMAL == 2
REGULATOR_MODE_IDLE == 4
REGULATOR_MODE_STANDBY == 8
EINVAL == 22
EIO == 5
ENOMEM == 12
EOPNOTSUPP == 95
NULL == 0

Bucks == 0 .. (LP8755_BUCK_MAX - 1)

\* enable_reg / vsel_reg of lp8755_buck_desc(_id): LP8755_REG_BUCK##_id
LP8755_REG_BUCK(id) ==
    CASE id = 0 -> 0
      [] id = 1 -> 3
      [] id = 2 -> 4
      [] id = 3 -> 1
      [] id = 4 -> 5
      [] id = 5 -> 2

(***************************************************************************)
(* Byte arithmetic                                                         *)
(***************************************************************************)
RECURSIVE BitAndN(_, _, _)
BitAndN(a, b, n) ==
    IF n = 0 THEN 0
    ELSE (a % 2) * (b % 2) + 2 * BitAndN(a \div 2, b \div 2, n - 1)

\* a & b, for operands of which one is a byte
BitAnd(a, b) == BitAndN(a, b, 8)

BitOr(a, b) == a + b - BitAnd(a, b)

\* ~m within the 8 value bits of the register map
BitNot(m) == 255 - (m % 256)

\* 1 << n
Shl1(n) == 2 ^ n

\* ffs(mask) - 1: index of the lowest set bit
RECURSIVE Ffs0(_)
Ffs0(m) == IF m % 2 = 1 THEN 0 ELSE 1 + Ffs0(m \div 2)

\* bit k of v, by division (used by the properties, not by the model)
Bit(v, k) == (v \div (2 ^ k)) % 2 = 1

(***************************************************************************)
(* Register access layer: the value a masked update stores                 *)
(***************************************************************************)
regmap_update_bits(orig, mask, val) ==
    BitOr(BitAnd(orig, BitNot(mask)), BitAnd(val, mask))

lp8755_update_bits(rf, reg, mask, val) ==
    [rf EXCEPT ![reg] = regmap_update_bits(rf[reg], mask, val)]

lp8755_write(rf, reg, val) == [rf EXCEPT ![reg] = val % 256]

lp8755_read(rf, reg) == rf[reg]

\* (faulty variant) the entry of code 8 lists BUCK3 twice
mphase_buck_dup ==
    << [nreg |-> 3, buck_num |-> <<0, 3, 5, 0, 0, 0>>],
       [nreg |-> 6, buck_num |-> <<0, 1, 2, 3, 4, 5>>],
       [nreg |-> 5, buck_num |-> <<0, 2, 3, 4, 5, 0>>],
       [nreg |-> 4, buck_num |-> <<0, 3, 4, 5, 0, 0>>],
       [nreg |-> 3, buck_num |-> <<0, 4, 5, 0, 0, 0>>],
       [nreg |-> 2, buck_num |-> <<0, 5, 0, 0, 0, 0>>],
       [nreg |-> 1, buck_num |-> <<0, 0, 0, 0, 0, 0>>],
       [nreg |-> 2, buck_num |-> <<0, 3, 0, 0, 0, 0>>],
       [nreg |-> 4, buck_num |-> <<0, 3, 3, 5, 0, 0>>] >>

(***************************************************************************)
(* Multi-phase topology table                                              *)
(***************************************************************************)
\* mphase_buck[MPHASE_CONF_MAX]; unnamed buck_num slots are zero-initialised
mphase_buck ==
    << [nreg |-> 3, buck_num |-> <<0, 3, 5, 0, 0, 0>>],
       [nreg |-> 6, buck_num |-> <<0, 1, 2, 3, 4, 5>>],
       [nreg |-> 5, buck_num |-> <<0, 2, 3, 4, 5, 0>>],
       [nreg |-> 4, buck_num |-> <<0, 3, 4, 5, 0, 0>>],
       [nreg |-> 3, buck_num |-> <<0, 4, 5, 0, 0, 0>>],
       [nreg |-> 2, buck_num |-> <<0, 5, 0, 0, 0, 0>>],
       [nreg |-> 1, buck_num |-> <<0, 0, 0, 0, 0, 0>>],
       [nreg |-> 2, buck_num |-> <<0, 3, 0, 0, 0, 0>>],
       [nreg |-> 4, buck_num |-> <<0, 2, 3, 5, 0, 0>>] >>

\* What the memory after the table may hold: mphase_buck[code] for a code
\* of MPHASE_CONF_MAX or more is read past the end of the array, so the
\* entry is whatever lies there (a bounded sample of such contents).
OutOfBoundsEntries ==
    { [nreg |-> 0, buck_num |-> <<0, 0, 0, 0, 0, 0>>],
      [nreg |-> 2, buck_num |-> <<5, 1, 0, 0, 0, 0>>] }

VARIABLES
    regs,        \* the chip's register file: address -> byte
    pdata,       \* client->dev.platform_data: whether present, mphase, ramp_us
    client_irq,  \* client->irq: 0 when no interrupt line is supplied
    oob,         \* the memory read by mphase_buck[code], code >= MPHASE_CONF_MAX
    mphase,      \* pchip->mphase
    buck_data,   \* rails whose pdata->buck_data[] slot is set
    ramp_us,     \* pdata->ramp_us[] (one value for all rails)
    rdev,        \* pchip->rdev[]: NULL or a pointer to a rail object
    registered,  \* rail objects that exist in the regulator framework
    irq,         \* pchip->irq
    irqmask,     \* pchip->irqmask
    armed,       \* lp8755_irq_handler is installed on the line
    pc,          \* position of lp8755_probe / lp8755_remove
    icnt,        \* loop index of lp8755_regulator_init / lp8755_remove
    ret,         \* return value of lp8755_probe
    ltrace,      \* what bring-up and teardown did, in order
    irqPending,  \* an interrupt signal not yet taken by the handler
    hpc,         \* position of lp8755_irq_handler
    flag0,       \* flag0 of lp8755_irq_handler
    flag1,       \* flag1 of lp8755_irq_handler
    htrace,      \* bus transactions and events of the current invocation
    hret,        \* what the last invocation returned
    raises,      \* status flags raised by the hardware so far
    busFails,    \* bus transactions failed so far
    last,        \* the last rail operation and its result
    nops,        \* rail operations applied so far
    threads      \* concurrent callers of masked updates, and the regmap lock

vars == << regs, pdata, client_irq, oob, mphase, buck_data, ramp_us, rdev,
           registered, irq, irqmask, armed, pc, icnt, ret, ltrace,
           irqPending, hpc, flag0, flag1, htrace, hret, raises,
           busFails, last, nops, threads >>

chipVars == << pdata, client_irq, oob, mphase, buck_data, ramp_us, rdev,
               registered, irq, irqmask, armed, pc, icnt, ret, ltrace >>

handlerVars == << irqPending, hpc, flag0, flag1, htrace, hret >>

railVars == << last, nops, threads >>

\* addresses the driver touches: 0x00..0x17 and 0x3D
RegAddrs == (0 .. 23) \cup {REG_MPHASE}

\* the entry lp8755_init_data, lp8755_regulator_init, lp8755_probe and
\* lp8755_remove index with pchip->mphase, unchecked
MphaseEntry(code) ==
    IF code < MPHASE_CONF_MAX THEN mphase_buck[code + 1] ELSE oob

\* a bus transaction may fail while the failure budget lasts
BusMay(ok) == ok \/ busFails < MaxBusFail

BusCount(ok) == IF ok THEN busFails ELSE busFails + 1

(***************************************************************************)
(* set_ramp_delay, as bring-up applies it to each rail it registers        *)
(***************************************************************************)
\* (faulty variant) the arm 1901 ... 3800 ends at 3799
RampCode_short3(ramp) ==
    CASE ramp >= 0 /\ ramp <= 230 -> 7
      [] ramp >= 231 /\ ramp <= 470 -> 6
      [] ramp >= 471 /\ ramp <= 940 -> 5
      [] ramp >= 941 /\ ramp <= 1900 -> 4
      [] ramp >= 1901 /\ ramp <= 3799 -> 3
      [] ramp >= 3800 /\ ramp <= 7500 -> 2
      [] ramp >= 7501 /\ ramp <= 15000 -> 1
      [] ramp >= 15001 /\ ramp <= 30000 -> 0
      [] OTHER -> -1

\* the switch of lp8755_buck_set_ramp: the hardware code, or -1 for the
\* default arm
RampCode(ramp) ==
    CASE ramp >= 0 /\ ramp <= 230 -> 7
      [] ramp >= 231 /\ ramp <= 470 -> 6
      [] ramp >= 471 /\ ramp <= 940 -> 5
      [] ramp >= 941 /\ ramp <= 1900 -> 4
      [] ramp >= 1901 /\ ramp <= 3800 -> 3
      [] ramp >= 3801 /\ ramp <= 7500 -> 2
      [] ramp >= 7501 /\ ramp <= 15000 -> 1
      [] ramp >= 15001 /\ ramp <= 30000 -> 0
      [] OTHER -> -1

\* lp8755_buck_set_ramp: the register file and the return value; busy is
\* TRUE when a bus transaction was issued
lp8755_buck_set_ramp(rf, id, ramp, ok) ==
    IF RampCode(ramp) < 0
    THEN [rf |-> rf, ret |-> -EINVAL, busy |-> FALSE]
    ELSE IF ok
         THEN [rf |-> lp8755_update_bits(rf, 7 + id, 7, RampCode(ramp)),
               ret |-> 0, busy |-> TRUE]
         ELSE [rf |-> rf, ret |-> -EIO, busy |-> TRUE]

(***************************************************************************)
(* The regulator framework, as the driver uses it                          *)
(***************************************************************************)
LEntry(op, id, val) == [op |-> op, id |-> id, val |-> val]

RECURSIVE UnregisterLog(_, _)
\* regulator_unregister(rd[idx[1]]), regulator_unregister(rd[idx[2]]), ...:
\* the calls that reach a rail object (a NULL handle is ignored)
UnregisterLog(rd, idx) ==
    IF idx = << >> THEN << >>
    ELSE (IF rd[Head(idx)] # NULL
          THEN << LEntry("unregister", Head(idx), 0) >>
          ELSE << >>) \o UnregisterLog(rd, Tail(idx))

Unregistered(rd, idx) == { idx[k] : k \in { j \in DOMAIN idx : rd[idx[j]] # NULL } }

\* rdev indices 0 .. n-1, in order
Indices(n) == [k \in 1 .. n |-> k - 1]

(***************************************************************************)
(* Initial states                                                          *)
(***************************************************************************)
\* values of the interrupt-mask register 0x0F the chip may hold
MaskValues == {255, 21}

\* values the multi-phase register 0x3D may hold: every code in the low
\* nibble, under a high nibble that is not part of it
MphaseRegValues == { 160 + c : c \in 0 .. 15 }

\* ramp_us values an external configuration supplies
RampChoices == {471}

\* topology codes an external configuration supplies
PdataCodes == {0, 6, 12}

\* which of the six output-disable writes fails (-1: none)
FailingWrites == {-1, 3}

RegErrors == {-EINVAL, -ENOMEM}

\* client->irq: no line, or line 7
IrqLines == {0, 7}

\* a caller that has not called yet
IdleThread ==
    [op |-> "none", id |-> 0, arg |-> 0, ups |-> << >>, k |-> 1,
     phase |-> "idle", tmp |-> 0, mid |-> FALSE]

\* two callers, none inside an operation; nobody holds the regmap lock
NoThreads == [holder |-> 0, th |-> [t \in {1, 2} |-> IdleThread]]

NoOp == [op |-> "none", id |-> 0, arg |-> 0, ret |-> 0, old |-> 0]

\* register contents at power-up of the model: rails enabled at selector 50
InitRegs(code, mask) ==
    [a \in RegAddrs |->
        CASE a \in 0 .. 5 -> LP8755_BUCK_EN_M + 50
          [] a = REG_MPHASE -> code
          [] a = REG_INTMASK -> mask
          [] OTHER -> 0]

\* the topology code bring-up will use
UsedCode(rf, pd) == IF pd.present THEN pd.mphase ELSE rf[REG_MPHASE] % 16

\* no platform data: lp8755_probe allocates a zeroed one
NoPdata == [present |-> FALSE, mphase |-> 0, ramp_us |-> 0]

NoEntry == [nreg |-> 0, buck_num |-> <<0, 0, 0, 0, 0, 0>>]

Init ==
    /\ \E code \in MphaseRegValues, mask \in MaskValues :
          regs = InitRegs(code, mask)
    /\ \/ pdata = NoPdata
       \/ /\ regs[REG_MPHASE] = 0
          /\ pdata \in [present : {TRUE}, mphase : PdataCodes,
                        ramp_us : RampChoices]
    /\ client_irq \in IrqLines
    /\ oob \in OutOfBoundsEntries
    /\ UsedCode(regs, pdata) < MPHASE_CONF_MAX => oob = NoEntry
    /\ mphase = 0
    /\ buck_data = {}
    /\ ramp_us = 0
    /\ rdev = [i \in Bucks |-> NULL]
    /\ registered = {}
    /\ irq = 0
    /\ irqmask = 0
    /\ armed = FALSE
    /\ pc = "Uninitialized"
    /\ icnt = 0
    /\ ret = 0
    /\ ltrace = << >>
    /\ irqPending = FALSE
    /\ hpc = "idle"
    /\ flag0 = 0
    /\ flag1 = 0
    /\ htrace = << >>
    /\ hret = "none"
    /\ raises = 0
    /\ busFails = 0
    /\ last = NoOp
    /\ nops = 0
    /\ threads = NoThreads

(***************************************************************************)
(* lp8755_probe                                                            *)
(***************************************************************************)
\* lines 621-648: the capability check and the allocations, then the choice
\* between the supplied configuration and lp8755_init_data
ProbeBegin(early) ==
    /\ pc = "Uninitialized"
    /\ IF early = "nofunc"
       THEN /\ pc' = "FailedPartial"
            /\ ret' = -EOPNOTSUPP
            /\ UNCHANGED << mphase, ramp_us >>
       ELSE IF early = "nomem"
       THEN /\ pc' = "FailedPartial"
            /\ ret' = -ENOMEM
            /\ UNCHANGED << mphase, ramp_us >>
       ELSE IF pdata.present
       THEN /\ mphase' = pdata.mphase
            /\ ramp_us' = pdata.ramp_us
            /\ pc' = "regulator_init"
            /\ UNCHANGED ret
       ELSE /\ pc' = "init_data"
            /\ UNCHANGED << mphase, ramp_us, ret >>
    /\ UNCHANGED << regs, pdata, client_irq, oob, buck_data, rdev, registered,
                    irq, irqmask, armed, icnt, ltrace, busFails >>
    /\ UNCHANGED handlerVars
    /\ UNCHANGED << raises, last, nops, threads >>

\* rails lp8755_init_data gives default init data: buck_num[0 .. nreg-1]
InitDataRails(code) ==
    { MphaseEntry(code).buck_num[k] : k \in 1 .. MphaseEntry(code).nreg }

\* lp8755_init_data, and lp8755_probe's err_chip_init when it fails
lp8755_init_data(ok) ==
    /\ pc = "init_data"
    /\ BusMay(ok)
    /\ busFails' = BusCount(ok)
    /\ IF ok
       THEN /\ mphase' = BitAnd(lp8755_read(regs, REG_MPHASE), 15)
            /\ buck_data' = buck_data \cup InitDataRails(mphase')
            /\ ltrace' = Append(ltrace, LEntry("read", REG_MPHASE, 0))
            /\ pc' = "regulator_init"
            /\ UNCHANGED ret
       ELSE /\ ret' = -EIO
            /\ ltrace' = Append(ltrace, LEntry("read", REG_MPHASE, -EIO))
            /\ pc' = "FailedPartial"
            /\ UNCHANGED << mphase, buck_data >>
    /\ UNCHANGED << regs, pdata, client_irq, oob, ramp_us, rdev, registered,
                    irq, irqmask, armed, icnt >>
    /\ UNCHANGED handlerVars
    /\ UNCHANGED << raises, last, nops, threads >>

\* one iteration of the loop of lp8755_regulator_init: register rail
\* buck_num[icnt], then apply its ramp rate (the result of which is dropped)
RegulatorInitStep(regok, err, busok) ==
    /\ pc = "regulator_init"
    /\ icnt < MphaseEntry(mphase).nreg
    /\ regok \/ err = -EINVAL \/ err = -ENOMEM
    /\ LET buck_num == MphaseEntry(mphase).buck_num[icnt + 1]
           ramp == lp8755_buck_set_ramp(regs, buck_num, ramp_us, busok)
       IN  /\ buck_data' = buck_data \cup {buck_num}
           /\ IF regok
              THEN /\ IF ramp.busy
                      THEN BusMay(busok) /\ busFails' = BusCount(busok)
                      ELSE busok /\ UNCHANGED busFails
                   /\ rdev' = [rdev EXCEPT ![buck_num] = 1]
                   /\ registered' = registered \cup {buck_num}
                   /\ regs' = ramp.rf
                   /\ ltrace' = ltrace \o
                        << LEntry("register", buck_num, 0),
                           LEntry("set_ramp", buck_num, ramp.ret) >>
                   /\ icnt' = icnt + 1
                   /\ UNCHANGED << pc, ret >>
              ELSE /\ busok
                   /\ rdev' = [rdev EXCEPT ![buck_num] = NULL]
                   /\ ret' = err
                   /\ ltrace' = Append(ltrace,
                                       LEntry("register_fail", buck_num, err))
                   /\ pc' = "err_buck"
                   /\ UNCHANGED << registered, regs, icnt, busFails >>
    /\ UNCHANGED << pdata, client_irq, oob, mphase, ramp_us, irq, irqmask,
                    armed >>
    /\ UNCHANGED handlerVars
    /\ UNCHANGED << raises, last, nops, threads >>

\* (faulty variant) err_buck bounded by the topology's rail count, as err_irq is
ErrBuckIndices_nreg == Indices(MphaseEntry(mphase).nreg)

\* the rdev indices the err_buck loop of lp8755_regulator_init unregisters
ErrBuckIndices == Indices(LP8755_BUCK_MAX)

\* err_buck of lp8755_regulator_init, returning to lp8755_probe, whose
\* "goto err_regulator" follows
ErrBuck ==
    /\ pc = "err_buck"
    /\ ltrace' = ltrace \o UnregisterLog(rdev, ErrBuckIndices)
    /\ registered' = registered \ Unregistered(rdev, ErrBuckIndices)
    /\ pc' = "err_regulator"
    /\ UNCHANGED << regs, pdata, client_irq, oob, mphase, buck_data, ramp_us,
                    rdev, irq, irqmask, armed, icnt, ret, busFails >>
    /\ UNCHANGED handlerVars
    /\ UNCHANGED << raises, last, nops, threads >>

\* lp8755_regulator_init returns 0; lp8755_probe sets pchip->irq and runs
\* lp8755_int_config: reqret is what request_threaded_irq returns
lp8755_int_config(busok, reqret) ==
    /\ pc = "regulator_init"
    /\ icnt >= MphaseEntry(mphase).nreg
    /\ irq' = client_irq
    /\ IF client_irq = 0
       THEN /\ busok /\ reqret = 0
            /\ pc' = "Active"
            /\ ret' = 0
            /\ UNCHANGED << irqmask, armed, ltrace, busFails >>
       ELSE /\ BusMay(busok)
            /\ busFails' = BusCount(busok)
            /\ IF ~busok
               THEN /\ reqret = 0
                    /\ ret' = -EIO
                    /\ pc' = "err_irq"
                    /\ ltrace' = Append(ltrace, LEntry("read", REG_INTMASK, -EIO))
                    /\ UNCHANGED << irqmask, armed >>
               ELSE /\ irqmask' = lp8755_read(regs, REG_INTMASK)
                    /\ ret' = reqret
                    /\ armed' = (reqret = 0)
                    /\ pc' = IF reqret < 0 THEN "err_irq" ELSE "Active"
                    /\ ltrace' = ltrace \o
                         << LEntry("read", REG_INTMASK, 0),
                            LEntry("request_irq", client_irq, reqret) >>
    /\ UNCHANGED << regs, pdata, client_irq, oob, mphase, buck_data, ramp_us,
                    rdev, registered, icnt >>
    /\ UNCHANGED handlerVars
    /\ UNCHANGED << raises, last, nops, threads >>

\* the rdev indices the err_irq loop of lp8755_probe unregisters: icnt
\* itself, for icnt < nreg
ErrIrqIndices(code) == Indices(MphaseEntry(code).nreg)

\* err_irq of lp8755_probe
ErrIrq ==
    /\ pc = "err_irq"
    /\ ltrace' = ltrace \o UnregisterLog(rdev, ErrIrqIndices(mphase))
    /\ registered' = registered \ Unregistered(rdev, ErrIrqIndices(mphase))
    /\ pc' = "err_regulator"
    /\ UNCHANGED << regs, pdata, client_irq, oob, mphase, buck_data, ramp_us,
                    rdev, irq, irqmask, armed, icnt, ret, busFails >>
    /\ UNCHANGED handlerVars
    /\ UNCHANGED << raises, last, nops, threads >>

\* (faulty variant) the loop starts at icnt = 1
DisableWrites_from1(rf, n, bad) ==
    [a \in DOMAIN rf |-> IF a \in 1 .. 5 /\ a # bad THEN 0 ELSE rf[a]]

RECURSIVE DisableWrites(_, _, _)
\* lp8755_write(pchip, icnt, 0x00) for icnt = n .. 5; the write to address
\* bad (if any) fails and its result is dropped
DisableWrites(rf, n, bad) ==
    IF n >= 6 THEN rf
    ELSE DisableWrites(IF n = bad THEN rf ELSE lp8755_write(rf, n, 0),
                       n + 1, bad)

DisableLog(bad) ==
    [k \in 1 .. 6 |-> LEntry("write", k - 1, IF k - 1 = bad THEN -EIO ELSE 0)]

\* err_regulator and err_chip_init of lp8755_probe: output disable, return
ErrRegulator(bad) ==
    /\ pc = "err_regulator"
    /\ bad \in FailingWrites
    /\ BusMay(bad < 0)
    /\ busFails' = BusCount(bad < 0)
    /\ regs' = DisableWrites(regs, 0, bad)
    /\ ltrace' = ltrace \o DisableLog(bad)
    /\ pc' = "FailedPartial"
    /\ UNCHANGED << pdata, client_irq, oob, mphase, buck_data, ramp_us, rdev,
                    registered, irq, irqmask, armed, icnt, ret >>
    /\ UNCHANGED handlerVars
    /\ UNCHANGED << raises, last, nops, threads >>

(***************************************************************************)
(* lp8755_remove                                                           *)
(***************************************************************************)
\* the rdev indices the first loop of lp8755_remove passes to
\* regulator_unregister: icnt itself, for icnt < nreg
RemoveIndices(code) == Indices(MphaseEntry(code).nreg)

\* the driver core calls lp8755_remove on a bound (successfully probed)
\* chip; the first loop of lp8755_remove
RemoveUnregister ==
    /\ pc = "Active"
    /\ ltrace' = ltrace \o UnregisterLog(rdev, RemoveIndices(mphase))
    /\ registered' = registered \ Unregistered(rdev, RemoveIndices(mphase))
    /\ icnt' = MphaseEntry(mphase).nreg
    /\ pc' = "remove_disable"
    /\ UNCHANGED << regs, pdata, client_irq, oob, mphase, buck_data, ramp_us,
                    rdev, irq, irqmask, armed, ret, busFails >>
    /\ UNCHANGED handlerVars
    /\ UNCHANGED << raises, last, nops, threads >>

\* the second loop of lp8755_remove: output disable, results dropped
RemoveDisable(bad) ==
    /\ pc = "remove_disable"
    /\ bad \in FailingWrites
    /\ BusMay(bad < 0)
    /\ busFails' = BusCount(bad < 0)
    /\ regs' = DisableWrites(regs, 0, bad)
    /\ ltrace' = ltrace \o DisableLog(bad)
    /\ pc' = "remove_irq"
    /\ UNCHANGED << pdata, client_irq, oob, mphase, buck_data, ramp_us, rdev,
                    registered, irq, irqmask, armed, icnt, ret >>
    /\ UNCHANGED handlerVars
    /\ UNCHANGED << raises, last, nops, threads >>

\* the end of lp8755_remove: free_irq returns once no invocation of the
\* handler is running
RemoveFreeIrq ==
    /\ pc = "remove_irq"
    /\ IF irq # 0
       THEN /\ hpc = "idle"
            /\ armed' = FALSE
            /\ ltrace' = Append(ltrace, LEntry("free_irq", irq, 0))
       ELSE UNCHANGED << armed, ltrace >>
    /\ pc' = "Detached"
    /\ UNCHANGED << regs, pdata, client_irq, oob, mphase, buck_data, ramp_us,
                    rdev, registered, irq, irqmask, icnt, ret, busFails >>
    /\ UNCHANGED handlerVars
    /\ UNCHANGED << raises, last, nops, threads >>

(***************************************************************************)
(* The hardware raising status flags, and the interrupt signal             *)
(***************************************************************************)
\* status flags the chip can raise: register and bit
FlagBits == ({REG_FLAG0} \X (2 .. 7)) \cup ({REG_FLAG1} \X (0 .. 1))

\* the chip sets one status flag that was clear and signals the interrupt
HwRaise(limit, reg, bit) ==
    /\ armed
    /\ raises < limit
    /\ << reg, bit >> \in FlagBits
    /\ BitAnd(regs[reg], Shl1(bit)) = 0
    /\ regs' = [regs EXCEPT ![reg] = BitOr(regs[reg], Shl1(bit))]
    /\ raises' = raises + 1
    /\ irqPending' = TRUE
    /\ UNCHANGED chipVars
    /\ UNCHANGED << hpc, flag0, flag1, htrace, hret >>
    /\ UNCHANGED << busFails, last, nops, threads >>

(***************************************************************************)
(* lp8755_irq_handler                                                      *)
(***************************************************************************)
\* a bus transaction of the handler: kind, register address, value, result
HBus(op, reg, val, ok) ==
    [kind |-> op, at |-> reg, val |-> val, ok |-> ok, stale |-> FALSE]

\* regulator_notifier_call_chain(pchip->rdev[id], class, NULL); stale
\* records that the rail object was no longer registered when it was used
HEvent(class, id) ==
    [kind |-> "event", at |-> id, val |-> class, ok |-> TRUE,
     stale |-> id \notin registered]

\* (faulty variant) the result of the bus transaction is not tested
HAfter_unchecked(ok, next) == next

\* where the handler goes after a bus transaction: on, or to err_i2c
HAfter(ok, next) == IF ok THEN next ELSE "done"

HReturn(ok) == IF ok THEN hret ELSE "IRQ_NONE"

\* the interrupt thread starts one invocation of the handler
HStart ==
    /\ armed
    /\ irqPending
    /\ hpc = "idle"
    /\ irqPending' = FALSE
    /\ hpc' = "read_flag0"
    /\ hret' = "running"
    /\ UNCHANGED << flag0, flag1, htrace >>
    /\ UNCHANGED regs
    /\ UNCHANGED chipVars
    /\ UNCHANGED << raises, busFails, last, nops, threads >>

\* lines 533-535
HReadFlag0(ok) ==
    /\ hpc = "read_flag0"
    /\ BusMay(ok)
    /\ busFails' = BusCount(ok)
    /\ flag0' = IF ok THEN lp8755_read(regs, REG_FLAG0) ELSE flag0
    /\ htrace' = Append(htrace,
                        HBus("read", REG_FLAG0,
                             IF ok THEN lp8755_read(regs, REG_FLAG0) ELSE 0, ok))
    /\ hpc' = HAfter(ok, "clear_flag0")
    /\ hret' = HReturn(ok)
    /\ UNCHANGED << regs, irqPending, flag1 >>
    /\ UNCHANGED chipVars
    /\ UNCHANGED << raises, last, nops, threads >>

\* lines 537-539
HClearFlag0(ok) ==
    /\ hpc = "clear_flag0"
    /\ BusMay(ok)
    /\ busFails' = BusCount(ok)
    /\ regs' = IF ok THEN lp8755_write(regs, REG_FLAG0, 0) ELSE regs
    /\ htrace' = Append(htrace, HBus("write", REG_FLAG0, 0, ok))
    /\ hpc' = HAfter(ok, "pwr_fault")
    /\ hret' = HReturn(ok)
    /\ UNCHANGED << irqPending, flag0, flag1 >>
    /\ UNCHANGED chipVars
    /\ UNCHANGED << raises, last, nops, threads >>

\* (faulty variant) the shift starts one bit too low: 0x2 << n
PwrFaultBit_low(n) == 2 * Shl1(n)

\* the status-register-A bit tested for rail n: 0x4 << n
PwrFaultBit(n) == 4 * Shl1(n)

\* (faulty variant) the cached interrupt mask is not consulted
PwrFaultDue_nomask(n) ==
    /\ BitAnd(flag0, PwrFaultBit(n)) # 0
    /\ rdev[n] # NULL

\* the condition under which iteration n of the loop of lines 542-548
\* notifies rail n
PwrFaultDue(n) ==
    /\ BitAnd(flag0, PwrFaultBit(n)) # 0
    /\ BitAnd(irqmask, PwrFaultBit(n)) # 0
    /\ rdev[n] # NULL

RECURSIVE PwrFaultEvents(_)
\* the notifications of the loop of lines 542-548, from iteration n on
PwrFaultEvents(n) ==
    IF n >= 6 THEN << >>
    ELSE (IF PwrFaultDue(n) THEN << HEvent("PWR_FAULT", n) >> ELSE << >>)
         \o PwrFaultEvents(n + 1)

\* the loop of lines 542-548
HPwrFault ==
    /\ hpc = "pwr_fault"
    /\ htrace' = htrace \o PwrFaultEvents(0)
    /\ hpc' = "read_flag1"
    /\ UNCHANGED << regs, irqPending, flag0, flag1, hret >>
    /\ UNCHANGED chipVars
    /\ UNCHANGED << raises, busFails, last, nops, threads >>

\* lines 551-553
HReadFlag1(ok) ==
    /\ hpc = "read_flag1"
    /\ BusMay(ok)
    /\ busFails' = BusCount(ok)
    /\ flag1' = IF ok THEN lp8755_read(regs, REG_FLAG1) ELSE flag1
    /\ htrace' = Append(htrace,
                        HBus("read", REG_FLAG1,
                             IF ok THEN lp8755_read(regs, REG_FLAG1) ELSE 0, ok))
    /\ hpc' = HAfter(ok, "clear_flag1")
    /\ hret' = HReturn(ok)
    /\ UNCHANGED << regs, irqPending, flag0 >>
    /\ UNCHANGED chipVars
    /\ UNCHANGED << raises, last, nops, threads >>

\* lines 555-557
HClearFlag1(ok) ==
    /\ hpc = "clear_flag1"
    /\ BusMay(ok)
    /\ busFails' = BusCount(ok)
    /\ regs' = IF ok THEN lp8755_write(regs, REG_FLAG1, 0) ELSE regs
    /\ htrace' = Append(htrace, HBus("write", REG_FLAG1, 0, ok))
    /\ hpc' = HAfter(ok, "ocp")
    /\ hret' = HReturn(ok)
    /\ UNCHANGED << irqPending, flag0, flag1 >>
    /\ UNCHANGED chipVars
    /\ UNCHANGED << raises, last, nops, threads >>

\* the condition of line 560 (bit 0: over-current) and of line 568 (bit 1:
\* over-voltage)
GlobalFaultDue(bitval) ==
    BitAnd(flag1, bitval) # 0 /\ BitAnd(irqmask, bitval) # 0

RECURSIVE AllRailEvents(_, _)
\* the notifications of a loop over all rails (lines 561-565, 569-573),
\* from iteration n on
AllRailEvents(class, n) ==
    IF n >= LP8755_BUCK_MAX THEN << >>
    ELSE (IF rdev[n] # NULL THEN << HEvent(class, n) >> ELSE << >>)
         \o AllRailEvents(class, n + 1)

\* lines 560-565
HOcp ==
    /\ hpc = "ocp"
    /\ htrace' = IF GlobalFaultDue(1)
                 THEN htrace \o AllRailEvents("OCP", 0)
                 ELSE htrace
    /\ hpc' = "ovp"
    /\ UNCHANGED << regs, irqPending, flag0, flag1, hret >>
    /\ UNCHANGED chipVars
    /\ UNCHANGED << raises, busFails, last, nops, threads >>

\* lines 568-574, and the return of IRQ_HANDLED
HOvp ==
    /\ hpc = "ovp"
    /\ htrace' = IF GlobalFaultDue(2)
                 THEN htrace \o AllRailEvents("OVP", 0)
                 ELSE htrace
    /\ hpc' = "done"
    /\ hret' = "IRQ_HANDLED"
    /\ UNCHANGED << regs, irqPending, flag0, flag1 >>
    /\ UNCHANGED chipVars
    /\ UNCHANGED << raises, busFails, last, nops, threads >>

\* the invocation has returned: its locals are gone and the interrupt
\* thread waits for the next signal
HExit ==
    /\ hpc = "done"
    /\ hpc' = "idle"
    /\ hret' = "none"
    /\ htrace' = << >>
    /\ flag0' = 0
    /\ flag1' = 0
    /\ UNCHANGED << regs, irqPending >>
    /\ UNCHANGED chipVars
    /\ UNCHANGED << raises, busFails, last, nops, threads >>

\* what request_threaded_irq may return
IrqResults == {0, -EINVAL}

(***************************************************************************)
(* The driver's life: bring-up, interrupts, teardown                       *)
(***************************************************************************)
Next ==
    \/ \E early \in {"ok", "nofunc", "nomem"} : ProbeBegin(early)
    \/ \E ok \in BOOLEAN : lp8755_init_data(ok)
    \/ \E regok \in BOOLEAN, err \in RegErrors, busok \in BOOLEAN :
          RegulatorInitStep(regok, err, busok)
    \/ ErrBuck
    \/ \E busok \in BOOLEAN, reqret \in IrqResults :
          lp8755_int_config(busok, reqret)
    \/ ErrIrq
    \/ \E bad \in FailingWrites : ErrRegulator(bad)
    \/ RemoveUnregister
    \/ \E bad \in FailingWrites : RemoveDisable(bad)
    \/ RemoveFreeIrq
    \/ \E fb \in FlagBits : HwRaise(MaxRaises, fb[1], fb[2])
    \/ HStart
    \/ \E ok \in BOOLEAN : HReadFlag0(ok)
    \/ \E ok \in BOOLEAN : HClearFlag0(ok)
    \/ HPwrFault
    \/ \E ok \in BOOLEAN : HReadFlag1(ok)
    \/ \E ok \in BOOLEAN : HClearFlag1(ok)
    \/ HOcp
    \/ HOvp
    \/ HExit

Spec == Init /\ [][Next]_vars

(***************************************************************************)
(* An Active chip with its interrupt armed, every bus transaction          *)
(* succeeding, and the interrupt thread scheduled whenever it can run      *)
(***************************************************************************)
FairInit ==
    /\ Init
    /\ pdata = NoPdata
    /\ client_irq # 0
    /\ UsedCode(regs, pdata) < MPHASE_CONF_MAX

HandlerStep ==
    \/ HStart
    \/ HReadFlag0(TRUE)
    \/ HClearFlag0(TRUE)
    \/ HPwrFault
    \/ HReadFlag1(TRUE)
    \/ HClearFlag1(TRUE)
    \/ HOcp
    \/ HOvp
    \/ HExit

FairNext ==
    \/ ProbeBegin("ok")
    \/ lp8755_init_data(TRUE)
    \/ RegulatorInitStep(TRUE, 0, TRUE)
    \/ lp8755_int_config(TRUE, 0)
    \/ \E fb \in FlagBits : HwRaise(MaxFairRaises, fb[1], fb[2])
    \/ HandlerStep

FairSpec == FairInit /\ [][FairNext]_vars /\ WF_vars(HandlerStep)

(***************************************************************************)
(* Rail operations (lp8755_buck_ops)                                       *)
(***************************************************************************)
Upd(reg, mask, val) == [reg |-> reg, mask |-> mask, val |-> val]

\* (faulty variant) the per-rail control register is taken at 0x07 + id
SetModeUpdates_ctrl7(id, mode) ==
    CASE mode = REGULATOR_MODE_FAST ->
            << Upd(REG_FPWM, Shl1(id), Shl1(id)) >>
      [] mode = REGULATOR_MODE_NORMAL ->
            << Upd(7 + id, 32, 0), Upd(REG_FPWM, Shl1(id), 0) >>
      [] mode = REGULATOR_MODE_IDLE ->
            << Upd(7 + id, 32, 32), Upd(REG_GENERAL, 1, 1),
               Upd(REG_FPWM, Shl1(id), 0) >>
      [] OTHER ->
            << Upd(REG_FPWM, Shl1(id), Shl1(id)) >>

\* the masked updates lp8755_buck_set_mode issues, in order: those of the
\* switch, then the one of line 162 (mask 0x01 << id, value regbval)
SetModeUpdates(id, mode) ==
    CASE mode = REGULATOR_MODE_FAST ->
            << Upd(REG_FPWM, Shl1(id), Shl1(id)) >>
      [] mode = REGULATOR_MODE_NORMAL ->
            << Upd(8 + id, 32, 0), Upd(REG_FPWM, Shl1(id), 0) >>
      [] mode = REGULATOR_MODE_IDLE ->
            << Upd(8 + id, 32, 32), Upd(REG_GENERAL, 1, 1),
               Upd(REG_FPWM, Shl1(id), 0) >>
      [] OTHER ->
            << Upd(REG_FPWM, Shl1(id), Shl1(id)) >>

RECURSIVE ApplyUpdates(_, _, _, _)
\* the updates ups[n ..], each applied unless it is the failAt-th, at which
\* the operation stops (goto err_i2c)
ApplyUpdates(rf, ups, n, failAt) ==
    IF n > Len(ups) \/ n = failAt THEN rf
    ELSE ApplyUpdates(lp8755_update_bits(rf, ups[n].reg, ups[n].mask,
                                         ups[n].val),
                      ups, n + 1, failAt)

\* lp8755_buck_set_mode; failAt = 0: every transaction succeeds
lp8755_buck_set_mode(rf, id, mode, failAt) ==
    [rf |-> ApplyUpdates(rf, SetModeUpdates(id, mode), 1, failAt),
     ret |-> IF failAt = 0 THEN 0 ELSE -EIO]

\* lp8755_buck_get_mode; failAt = 0: both reads succeed
lp8755_buck_get_mode(rf, id, failAt) ==
    IF failAt = 1 THEN 0
    ELSE IF BitAnd(lp8755_read(rf, REG_FPWM), Shl1(id)) # 0
         THEN REGULATOR_MODE_FAST
    ELSE IF failAt = 2 THEN 0
    ELSE IF BitAnd(lp8755_read(rf, 8 + id), 32) # 0
         THEN REGULATOR_MODE_IDLE
    ELSE REGULATOR_MODE_NORMAL

\* how many bus transactions lp8755_buck_get_mode issues
GetModeReads(rf, id) ==
    IF BitAnd(lp8755_read(rf, REG_FPWM), Shl1(id)) # 0 THEN 1 ELSE 2

\* (faulty variant) the selector is written over the whole register
lp8755_set_voltage_buck_sel_write(rf, id, sel, ok) ==
    IF ok
    THEN [rf |-> lp8755_write(rf, LP8755_REG_BUCK(id), sel % 256), ret |-> 0]
    ELSE [rf |-> rf, ret |-> -EIO]

\* lp8755_set_voltage_buck_sel: vsel_reg and vsel_mask of the descriptor
lp8755_set_voltage_buck_sel(rf, id, sel, ok) ==
    IF ok
    THEN [rf |-> lp8755_update_bits(rf, LP8755_REG_BUCK(id),
                                    LP8755_BUCK_VOUT_M,
                                    sel * Shl1(Ffs0(LP8755_BUCK_VOUT_M))),
          ret |-> 0]
    ELSE [rf |-> rf, ret |-> -EIO]

\* mode arguments a consumer passes: the three modes and one other value
ModeArgs == {REGULATOR_MODE_FAST, REGULATOR_MODE_NORMAL,
             REGULATOR_MODE_IDLE, REGULATOR_MODE_STANDBY}

\* selectors a consumer passes: the ends of the valid range, and beyond
SelectorArgs == {0, LP8755_BUCK_LINEAR_OUT_MAX, LP8755_BUCK_LINEAR_OUT_MAX + 1,
                 127, 128}

RailOp(op, id, arg, r, old) ==
    [op |-> op, id |-> id, arg |-> arg, ret |-> r, old |-> old]

\* a rail operation is called on a registered rail of an Active chip
RailCallable(id) ==
    /\ pc = "Active"
    /\ rdev[id] # NULL
    /\ id \in registered
    /\ nops < MaxRailOps

SetMode(id, mode, failAt) ==
    /\ RailCallable(id)
    /\ failAt \in 0 .. Len(SetModeUpdates(id, mode))
    /\ BusMay(failAt = 0)
    /\ busFails' = BusCount(failAt = 0)
    /\ LET r == lp8755_buck_set_mode(regs, id, mode, failAt)
       IN  /\ regs' = r.rf
           /\ last' = RailOp("set_mode", id, mode, r.ret, regs)
    /\ nops' = nops + 1
    /\ UNCHANGED chipVars
    /\ UNCHANGED handlerVars
    /\ UNCHANGED << raises, threads >>

GetMode(id, failAt) ==
    /\ RailCallable(id)
    /\ failAt \in 0 .. GetModeReads(regs, id)
    /\ BusMay(failAt = 0)
    /\ busFails' = BusCount(failAt = 0)
    /\ last' = RailOp("get_mode", id, 0,
                      lp8755_buck_get_mode(regs, id, failAt), regs)
    /\ nops' = nops + 1
    /\ UNCHANGED regs
    /\ UNCHANGED chipVars
    /\ UNCHANGED handlerVars
    /\ UNCHANGED << raises, threads >>

SetVoltageSel(id, sel, ok) ==
    /\ RailCallable(id)
    /\ BusMay(ok)
    /\ busFails' = BusCount(ok)
    /\ LET r == lp8755_set_voltage_buck_sel(regs, id, sel, ok)
       IN  /\ regs' = r.rf
           /\ last' = RailOp("set_voltage", id, sel, r.ret, regs)
    /\ nops' = nops + 1
    /\ UNCHANGED chipVars
    /\ UNCHANGED handlerVars
    /\ UNCHANGED << raises, threads >>

\* register contents the rail operations start from: one byte pattern in
\* the forced-mode register and one in the others, so that the rails hold
\* every mix of modes
RegPatterns == {0, 255, 90, 165}

\* topology codes of RailSpec: three rails, and all six
RailCodes == {0, 1}

RailInit ==
    /\ \E code \in RailCodes, fpwm \in RegPatterns, pat \in RegPatterns :
          regs = [a \in RegAddrs |->
                     IF a = REG_MPHASE THEN 160 + code
                     ELSE IF a = REG_FPWM THEN fpwm
                     ELSE pat]
    /\ pdata = NoPdata
    /\ client_irq = 0
    /\ oob = NoEntry
    /\ mphase = 0
    /\ buck_data = {}
    /\ ramp_us = 0
    /\ rdev = [i \in Bucks |-> NULL]
    /\ registered = {}
    /\ irq = 0
    /\ irqmask = 0
    /\ armed = FALSE
    /\ pc = "Uninitialized"
    /\ icnt = 0
    /\ ret = 0
    /\ ltrace = << >>
    /\ irqPending = FALSE
    /\ hpc = "idle"
    /\ flag0 = 0
    /\ flag1 = 0
    /\ htrace = << >>
    /\ hret = "none"
    /\ raises = 0
    /\ busFails = 0
    /\ last = NoOp
    /\ nops = 0
    /\ threads = NoThreads

\* bring-up without failures, then rail operations on the Active chip
RailNext ==
    \/ ProbeBegin("ok")
    \/ lp8755_init_data(TRUE)
    \/ RegulatorInitStep(TRUE, 0, TRUE)
    \/ lp8755_int_config(TRUE, 0)
    \/ \E id \in Bucks, mode \in ModeArgs, failAt \in 0 .. 3 :
          SetMode(id, mode, failAt)
    \/ \E id \in Bucks, failAt \in 0 .. 2 : GetMode(id, failAt)
    \/ \E id \in Bucks, sel \in SelectorArgs, ok \in BOOLEAN :
          SetVoltageSel(id, sel, ok)

RailSpec == RailInit /\ [][RailNext]_vars

(***************************************************************************)
(* set_ramp_delay called by a consumer                                     *)
(***************************************************************************)
\* ramp rates a consumer passes: the boundaries of the switch arms
RampArgs == {0, 230, 231, 470, 471, 3800, 3801, 30000, 30001}

SetRamp(id, ramp, ok) ==
    /\ RailCallable(id)
    /\ LET r == lp8755_buck_set_ramp(regs, id, ramp, ok)
       IN  /\ IF r.busy
              THEN BusMay(ok) /\ busFails' = BusCount(ok)
              ELSE ok /\ UNCHANGED busFails
           /\ regs' = r.rf
           /\ last' = RailOp("set_ramp", id, ramp, r.ret, regs)
    /\ nops' = nops + 1
    /\ UNCHANGED chipVars
    /\ UNCHANGED handlerVars
    /\ UNCHANGED << raises, threads >>

\* the same byte pattern in every register
UniformInit ==
    /\ RailInit
    /\ regs[REG_FPWM] = regs[REG_GENERAL]

RampNext ==
    \/ ProbeBegin("ok")
    \/ lp8755_init_data(TRUE)
    \/ RegulatorInitStep(TRUE, 0, TRUE)
    \/ lp8755_int_config(TRUE, 0)
    \/ \E id \in Bucks, ramp \in RampArgs, ok \in BOOLEAN :
          SetRamp(id, ramp, ok)

RampSpec == UniformInit /\ [][RampNext]_vars

(***************************************************************************)
(* Voltage selection: set, read back, list                                 *)
(***************************************************************************)
MIN_UV == 500000
MAX_UV == 1675000
UV_STEP == 10000

\* n_voltages of lp8755_buck_desc
N_VOLTAGES == LP8755_BUCK_LINEAR_OUT_MAX + 1

\* lp8755_get_voltage_buck_sel
lp8755_get_voltage_buck_sel(rf, id, ok) ==
    IF ok
    THEN BitAnd(lp8755_read(rf, LP8755_REG_BUCK(id)), LP8755_BUCK_VOUT_M)
            \div Shl1(Ffs0(LP8755_BUCK_VOUT_M))
    ELSE -EIO

\* lp8755_list_voltage_buck
lp8755_list_voltage_buck(selector) ==
    IF selector >= N_VOLTAGES THEN -EINVAL
    ELSE MIN_UV + (UV_STEP * selector)

\* every selector of the valid range, and the ten above it
VoltageSelectors == 0 .. (N_VOLTAGES + 9)

\* set_voltage_sel as the first operation on the chip
SetVoltageSelFirst(id, sel, ok) ==
    /\ nops = 0
    /\ SetVoltageSel(id, sel, ok)

\* get_voltage_sel on the rail whose selector was just set; the record
\* keeps the selector that was set as arg
GetVoltageSel(id, ok) ==
    /\ pc = "Active"
    /\ rdev[id] # NULL
    /\ id \in registered
    /\ last.op = "set_voltage"
    /\ last.id = id
    /\ BusMay(ok)
    /\ busFails' = BusCount(ok)
    /\ last' = RailOp("get_voltage", id, last.arg,
                      lp8755_get_voltage_buck_sel(regs, id, ok), regs)
    /\ nops' = nops + 1
    /\ UNCHANGED regs
    /\ UNCHANGED chipVars
    /\ UNCHANGED handlerVars
    /\ UNCHANGED << raises, threads >>

\* list_voltage as the first operation on the chip
ListVoltage(id, sel) ==
    /\ nops = 0
    /\ RailCallable(id)
    /\ last' = RailOp("list_voltage", id, sel,
                      lp8755_list_voltage_buck(sel), regs)
    /\ nops' = nops + 1
    /\ UNCHANGED regs
    /\ UNCHANGED chipVars
    /\ UNCHANGED handlerVars
    /\ UNCHANGED << raises, busFails, threads >>

VoltageNext ==
    \/ ProbeBegin("ok")
    \/ lp8755_init_data(TRUE)
    \/ RegulatorInitStep(TRUE, 0, TRUE)
    \/ lp8755_int_config(TRUE, 0)
    \/ \E id \in Bucks, sel \in VoltageSelectors, ok \in BOOLEAN :
          SetVoltageSelFirst(id, sel, ok)
    \/ \E id \in Bucks, ok \in BOOLEAN : GetVoltageSel(id, ok)
    \/ \E id \in Bucks, sel \in VoltageSelectors : ListVoltage(id, sel)

VoltageSpec == UniformInit /\ [][VoltageNext]_vars

(***************************************************************************)
(* enable, disable, is_enabled, enable_time                                *)
(***************************************************************************)
\* (faulty variant) the enable mask is written over the whole register
lp8755_enable_buck_write(rf, id, ok) ==
    IF ok
    THEN [rf |-> lp8755_write(rf, LP8755_REG_BUCK(id), LP8755_BUCK_EN_M),
          ret |-> 0]
    ELSE [rf |-> rf, ret |-> -EIO]

\* lp8755_enable_buck: enable_reg and enable_mask of the descriptor
lp8755_enable_buck(rf, id, ok) ==
    IF ok
    THEN [rf |-> lp8755_update_bits(rf, LP8755_REG_BUCK(id),
                                    LP8755_BUCK_EN_M, LP8755_BUCK_EN_M),
          ret |-> 0]
    ELSE [rf |-> rf, ret |-> -EIO]

\* lp8755_disable_buck
lp8755_disable_buck(rf, id, ok) ==
    IF ok
    THEN [rf |-> lp8755_update_bits(rf, LP8755_REG_BUCK(id),
                                    LP8755_BUCK_EN_M, 0),
          ret |-> 0]
    ELSE [rf |-> rf, ret |-> -EIO]

\* lp8755_is_enabled_buck: the result of lp8755_read is not tested, and on
\* failure reg is left as the stack held it (junk)
lp8755_is_enabled_buck(rf, id, ok, junk) ==
    LET reg == IF ok THEN lp8755_read(rf, LP8755_REG_BUCK(id)) ELSE junk
    IN  IF BitAnd(reg, LP8755_BUCK_EN_M) # 0 THEN 1 ELSE 0

\* lp8755_buck_enable_time: register 0x12 + id, in units of 100 us
lp8755_buck_enable_time(rf, id, ok) ==
    IF ok THEN (lp8755_read(rf, 18 + id) % 256) * 100 ELSE -EIO

\* what an uninitialised reg may hold: enable bit clear, enable bit set
JunkValues == {0, 255}

\* enable and disable may be called once more than the other operations,
\* so that each is repeated
RepeatCallable(id) ==
    /\ pc = "Active"
    /\ rdev[id] # NULL
    /\ id \in registered
    /\ nops <= MaxRailOps

Enable(id, ok) ==
    /\ RepeatCallable(id)
    /\ BusMay(ok)
    /\ busFails' = BusCount(ok)
    /\ LET r == lp8755_enable_buck(regs, id, ok)
       IN  /\ regs' = r.rf
           /\ last' = RailOp("enable", id, 1, r.ret, regs)
    /\ nops' = nops + 1
    /\ UNCHANGED chipVars
    /\ UNCHANGED handlerVars
    /\ UNCHANGED << raises, threads >>

Disable(id, ok) ==
    /\ RepeatCallable(id)
    /\ BusMay(ok)
    /\ busFails' = BusCount(ok)
    /\ LET r == lp8755_disable_buck(regs, id, ok)
       IN  /\ regs' = r.rf
           /\ last' = RailOp("disable", id, 0, r.ret, regs)
    /\ nops' = nops + 1
    /\ UNCHANGED chipVars
    /\ UNCHANGED handlerVars
    /\ UNCHANGED << raises, threads >>

\* is_enabled on the rail that was just enabled or disabled; the record
\* keeps as arg what a successful call before it leaves: 1 after enable,
\* 0 after disable
IsEnabled(id, ok, junk) ==
    /\ pc = "Active"
    /\ rdev[id] # NULL
    /\ id \in registered
    /\ last.op \in {"enable", "disable"}
    /\ last.id = id
    /\ ok => junk = 0
    /\ BusMay(ok)
    /\ busFails' = BusCount(ok)
    /\ last' = RailOp("is_enabled", id, last.arg,
                      lp8755_is_enabled_buck(regs, id, ok, junk), regs)
    /\ nops' = nops + 1
    /\ UNCHANGED regs
    /\ UNCHANGED chipVars
    /\ UNCHANGED handlerVars
    /\ UNCHANGED << raises, threads >>

EnableTime(id, ok) ==
    /\ RailCallable(id)
    /\ BusMay(ok)
    /\ busFails' = BusCount(ok)
    /\ last' = RailOp("enable_time", id, 0,
                      lp8755_buck_enable_time(regs, id, ok), regs)
    /\ nops' = nops + 1
    /\ UNCHANGED regs
    /\ UNCHANGED chipVars
    /\ UNCHANGED handlerVars
    /\ UNCHANGED << raises, threads >>

EnableNext ==
    \/ ProbeBegin("ok")
    \/ lp8755_init_data(TRUE)
    \/ RegulatorInitStep(TRUE, 0, TRUE)
    \/ lp8755_int_config(TRUE, 0)
    \/ \E id \in Bucks, ok \in BOOLEAN : Enable(id, ok)
    \/ \E id \in Bucks, ok \in BOOLEAN : Disable(id, ok)
    \/ \E id \in Bucks, ok \in BOOLEAN, junk \in JunkValues :
          IsEnabled(id, ok, junk)
    \/ \E id \in Bucks, ok \in BOOLEAN : EnableTime(id, ok)

EnableSpec == UniformInit /\ [][EnableNext]_vars

(***************************************************************************)
(* Two callers issuing masked updates concurrently                         *)
(***************************************************************************)
\* (faulty variant) the update is a read and a write, each a transaction
\* of its own
UpdateIsOneTransaction_split == FALSE

\* lp8755_update_bits is one call of regmap_update_bits, which reads,
\* modifies and writes under the regmap lock
UpdateIsOneTransaction == TRUE

ConcThreads == {1, 2}

OtherThread(t) == IF t = 1 THEN 2 ELSE 1

\* modes and ramp rates of the concurrent callers
ConcModes == {REGULATOR_MODE_FAST, REGULATOR_MODE_NORMAL, REGULATOR_MODE_IDLE}

ConcRamps == {230, 30000}

\* the one update of lp8755_buck_set_ramp for a supported rate
SetRampUpdates(id, ramp) == << Upd(7 + id, 7, RampCode(ramp)) >>

\* caller t enters an operation that issues the updates ups
ConcStart(t, op, id, arg, ups) ==
    /\ pc = "Active"
    /\ rdev[id] # NULL
    /\ id \in registered
    /\ threads.th[t].phase = "idle"
    /\ threads' =
          [threads EXCEPT !.th[t] =
              [op |-> op, id |-> id, arg |-> arg, ups |-> ups, k |-> 1,
               phase |-> "read", tmp |-> 0,
               mid |-> /\ threads.th[OtherThread(t)].phase \in {"read", "write"}
                       /\ threads.th[OtherThread(t)].k > 1]]
    /\ UNCHANGED regs
    /\ UNCHANGED chipVars
    /\ UNCHANGED handlerVars
    /\ UNCHANGED << raises, busFails, last, nops >>

\* set_mode on a rail the other caller is not setting the mode of
ConcSetMode(t, id, mode) ==
    /\ ~(/\ threads.th[OtherThread(t)].op = "set_mode"
         /\ threads.th[OtherThread(t)].id = id)
    /\ ConcStart(t, "set_mode", id, mode, SetModeUpdates(id, mode))

\* set_ramp_delay by the second caller: another masked update, which for
\* rail id + 1 shares register 0x08 + id with set_mode
ConcSetRamp(t, id, ramp) ==
    /\ t = 2
    /\ ConcStart(t, "set_ramp", id, ramp, SetRampUpdates(id, ramp))

\* the read of caller t's next update, taking the regmap lock
ConcRead(t) ==
    /\ threads.th[t].phase = "read"
    /\ threads.holder = 0
    /\ threads' =
          [threads EXCEPT
              !.holder = IF UpdateIsOneTransaction THEN t ELSE 0,
              !.th[t].phase = "write",
              !.th[t].tmp = lp8755_read(regs, threads.th[t].ups[threads.th[t].k].reg)]
    /\ UNCHANGED regs
    /\ UNCHANGED chipVars
    /\ UNCHANGED handlerVars
    /\ UNCHANGED << raises, busFails, last, nops >>

\* the write of caller t's update, from the value it read; the lock is
\* released and the operation goes on to its next update, or returns
ConcWrite(t) ==
    /\ threads.th[t].phase = "write"
    /\ threads.holder \in {0, t}
    /\ LET me == threads.th[t]
           u == me.ups[me.k]
       IN  /\ regs' = lp8755_write(regs, u.reg,
                                   regmap_update_bits(me.tmp, u.mask, u.val))
           /\ threads' =
                 [threads EXCEPT
                     !.holder = 0,
                     !.th[t].k = me.k + 1,
                     !.th[t].phase = IF me.k + 1 > Len(me.ups)
                                     THEN "done" ELSE "read"]
    /\ UNCHANGED chipVars
    /\ UNCHANGED handlerVars
    /\ UNCHANGED << raises, busFails, last, nops >>

ConcNext ==
    \/ ProbeBegin("ok")
    \/ lp8755_init_data(TRUE)
    \/ RegulatorInitStep(TRUE, 0, TRUE)
    \/ lp8755_int_config(TRUE, 0)
    \/ \E t \in ConcThreads, id \in Bucks, mode \in ConcModes :
          ConcSetMode(t, id, mode)
    \/ \E t \in ConcThreads, id \in Bucks, ramp \in ConcRamps :
          ConcSetRamp(t, id, ramp)
    \/ \E t \in ConcThreads : ConcRead(t)
    \/ \E t \in ConcThreads : ConcWrite(t)

ConcSpec == UniformInit /\ [][ConcNext]_vars

(***************************************************************************)
(* Reading the traces                                                      *)
(***************************************************************************)
\* the rails of a valid topology code, in resolution order
ResolutionOrder(code) ==
    SubSeq(mphase_buck[code + 1].buck_num, 1, mphase_buck[code + 1].nreg)

\* the ids of the entries of ltrace with operation op, in order
LIds(op) ==
    LET Is(e) == e.op = op
        sel == SelectSeq(ltrace, Is)
    IN  [k \in DOMAIN sel |-> sel[k].id]

\* positions of ltrace holding operation op
LPos(op) == { k \in DOMAIN ltrace : ltrace[k].op = op }

SeqRange(q) == { q[k] : k \in DOMAIN q }

\* how many times the current invocation notified rail id of class
EventCount(class, id) ==
    Cardinality({ k \in DOMAIN htrace :
                    /\ htrace[k].kind = "event"
                    /\ htrace[k].val = class
                    /\ htrace[k].at = id })

\* positions of htrace holding events of class
EventPos(class) ==
    { k \in DOMAIN htrace : htrace[k].kind = "event" /\ htrace[k].val = class }

\* positions of htrace holding a successful bus transaction
BusPos(kind, reg) ==
    { k \in DOMAIN htrace :
        htrace[k].kind = kind /\ htrace[k].at = reg /\ htrace[k].ok }

\* positions of htrace holding a failed bus transaction
FailPos ==
    { k \in DOMAIN htrace : htrace[k].kind # "event" /\ ~htrace[k].ok }

\* the value the invocation read from register reg
ValueRead(reg) ==
    LET k == CHOOSE j \in BusPos("read", reg) : TRUE IN htrace[k].val

(***************************************************************************)
(* C1: for every valid topology code, teardown of an Active chip           *)
(* deregisters every rail that bring-up registered, each exactly once and  *)
(* in resolution order, so that no rail remains registered once the chip   *)
(* is Detached.  (Fails: lp8755_remove unregisters rdev[0 .. nreg-1], not  *)
(* rdev[buck_num[0 .. nreg-1]].)                                           *)
(***************************************************************************)
C1_TeardownDeregistersAll ==
    (pc = "Detached" /\ mphase < MPHASE_CONF_MAX) =>
        /\ registered = {}
        /\ LIds("unregister") = ResolutionOrder(mphase)

(***************************************************************************)
(* C2: in every interleaving of a handler invocation with teardown, the    *)
(* handler never emits an event to a rail that teardown has already        *)
(* deregistered.  (Fails: lp8755_remove leaves pchip->rdev[] set and frees *)
(* the interrupt only after the rails.)                                    *)
(***************************************************************************)
C2_NoEventToDeregisteredRail ==
    \A k \in DOMAIN htrace : htrace[k].kind = "event" => ~htrace[k].stale

(***************************************************************************)
(* C3: if registration of the k-th rail fails during bring-up, exactly the *)
(* k-1 rails registered before it are deregistered, each once and in the   *)
(* order they were registered, no further rail is registered, the          *)
(* interrupt line is never armed, and bring-up ends in FailedPartial       *)
(* returning the original registration error; for every valid topology     *)
(* code and every k.                                                       *)
(***************************************************************************)
C3_RegistrationFailureRollsBack ==
    \A f \in LPos("register_fail") :
        mphase < MPHASE_CONF_MAX =>
            LET order == ResolutionOrder(mphase)
                k == CHOOSE j \in DOMAIN order : order[j] = ltrace[f].id
            IN  /\ LIds("register") = SubSeq(order, 1, k - 1)
                /\ \A j \in LPos("register") : j < f
                /\ LPos("request_irq") = {}
                /\ ~armed
                /\ pc \in {"err_buck", "err_regulator", "FailedPartial"}
                /\ pc # "err_buck" =>
                      /\ LIds("unregister") = SubSeq(order, 1, k - 1)
                      /\ \A j \in LPos("unregister") : j > f
                      /\ registered = {}
                /\ pc = "FailedPartial" => ret = ltrace[f].val

\* the 4th of six rails failed to register and the three before it were
\* deregistered
C3_Witness ==
    /\ pc = "FailedPartial"
    /\ mphase = 1
    /\ \E f \in LPos("register_fail") : ltrace[f].id = 3
    /\ LIds("unregister") = <<0, 1, 2>>

(***************************************************************************)
(* C4: if interrupt arming fails during bring-up (mask-register read or    *)
(* handler installation) after the rails were registered, then for every   *)
(* valid topology code every registered rail is deregistered exactly once  *)
(* before the error is returned, and no rail stays registered.  (Fails:    *)
(* err_irq of lp8755_probe unregisters rdev[0 .. nreg-1].)                 *)
(***************************************************************************)
ArmingFailed ==
    \E k \in DOMAIN ltrace :
        /\ ltrace[k].val < 0
        /\ \/ ltrace[k].op = "request_irq"
           \/ ltrace[k].op = "read" /\ ltrace[k].id = REG_INTMASK

C4_ArmingFailureRollsBack ==
    (ArmingFailed /\ pc = "FailedPartial" /\ mphase < MPHASE_CONF_MAX) =>
        /\ registered = {}
        /\ \A id \in SeqRange(LIds("register")) :
              Cardinality({ k \in LPos("unregister") : ltrace[k].id = id }) = 1

(***************************************************************************)
(* C5: a topology code in 9..15, read from the configuration register or   *)
(* supplied externally, is rejected: bring-up fails, no topology table     *)
(* entry is used and no rail is registered.  (Fails: the code indexes      *)
(* mphase_buck unchecked.)                                                 *)
(***************************************************************************)
C5_InvalidTopologyRejected ==
    mphase >= MPHASE_CONF_MAX =>
        /\ pc # "Active"
        /\ LPos("register") = {}
        /\ buck_data = {}

C7_FailureEndsInvocation ==
    \A k \in FailPos :
        /\ k = Len(htrace)
        /\ hpc = "done"
        /\ hret = "IRQ_NONE"
        /\ htrace[k].at = REG_FLAG0 =>
              \A j \in DOMAIN htrace : htrace[j].kind # "event"

\* the clearing write of status-register-B failed after a power-fault
\* event had been emitted; the invocation ended there
C7_Witness ==
    /\ hpc = "done"
    /\ FailPos # {}
    /\ \E k \in FailPos : htrace[k].kind = "write" /\ htrace[k].at = REG_FLAG1
    /\ EventPos("PWR_FAULT") # {}

(***************************************************************************)
(* C8 (as claimed): while the chip is Active with the interrupt armed,     *)
(* every power-fault flag the hardware raises in status-register-A for a   *)
(* live, unmasked rail is eventually followed by a power-fault event       *)
(* delivered to that rail, the handler running for every signal and bus    *)
(* transactions succeeding, including when the flag is raised between the  *)
(* handler's read and its clearing write.  (Fails: the write of 0x00       *)
(* clears a flag the read did not see.)                                    *)
(***************************************************************************)
C8_NoFaultLost ==
    \A i \in Bucks :
        (/\ pc = "Active" /\ armed
         /\ Bit(regs[REG_FLAG0], i + 2)
         /\ Bit(irqmask, i + 2)
         /\ rdev[i] # NULL)
        ~> (EventCount("PWR_FAULT", i) > 0)

(***************************************************************************)
(* C8 (amended): every power-fault flag that is set in the value the       *)
(* handler reads from status-register-A, for an unmasked rail with a       *)
(* handle, is followed by a power-fault event delivered to that rail in    *)
(* that invocation, bus transactions succeeding.                           *)
(***************************************************************************)
C8_ReadFaultDelivered ==
    \A i \in Bucks :
        (/\ hpc = "clear_flag0"
         /\ Bit(flag0, i + 2)
         /\ Bit(irqmask, i + 2)
         /\ rdev[i] # NULL)
        ~> (EventCount("PWR_FAULT", i) > 0)

\* two flags were raised, the invocation read one of them and delivered it
C8_Witness ==
    /\ hpc = "done"
    /\ raises = 2
    /\ \E i \in Bucks :
          /\ Bit(flag0, i + 2)
          /\ EventCount("PWR_FAULT", i) = 1
          /\ \A j \in Bucks \ {i} : EventCount("PWR_FAULT", j) = 0

(***************************************************************************)
(* C9: for every rail identifier 0..5 and every mode m in {Fast, Normal,   *)
(* Idle}, a successful set_mode(m) followed by get_mode() on the same rail *)
(* returns m, whatever the rail's previous mode and whatever modes the     *)
(* other rails hold.                                                       *)
(***************************************************************************)
C9_SetModeGetMode ==
    (/\ last.op = "set_mode"
     /\ last.ret = 0
     /\ last.arg \in {REGULATOR_MODE_FAST, REGULATOR_MODE_NORMAL,
                      REGULATOR_MODE_IDLE})
    => lp8755_buck_get_mode(regs, last.id, 0) = last.arg

\* rail 5 was in Fast and rail 1 in Idle; set_mode(Idle) on rail 5 succeeded
C9_Witness ==
    /\ last.op = "set_mode"
    /\ last.ret = 0
    /\ last.id = 5
    /\ last.arg = REGULATOR_MODE_IDLE
    /\ lp8755_buck_get_mode(last.old, 5, 0) = REGULATOR_MODE_FAST
    /\ lp8755_buck_get_mode(last.old, 1, 0) = REGULATOR_MODE_IDLE

(***************************************************************************)
(* C10: set_voltage rejects every selector >= 119 with InvalidSelector and *)
(* leaves the rail's enable/voltage register unchanged in that case.       *)
(* (Fails: lp8755_set_voltage_buck_sel writes sel & 0x7F unchecked.)       *)
(***************************************************************************)
C10_InvalidSelectorRejected ==
    (last.op = "set_voltage" /\ last.arg > LP8755_BUCK_LINEAR_OUT_MAX) =>
        /\ last.ret = -EINVAL
        /\ regs[LP8755_REG_BUCK(last.id)] = last.old[LP8755_REG_BUCK(last.id)]

(***************************************************************************)
(* C11 (as claimed): set_ramp_rate maps the inputs 230, 231, 470, 471,     *)
(* 3800, 3801, 30000 to the hardware codes 0x07, 0x06, 0x06, 0x05, 0x02,   *)
(* 0x02, 0x00, and input 30001 yields an error with no register write.     *)
(* (Fails: 3800 is the last value of the arm of code 0x03.)                *)
(***************************************************************************)
RampWritten(code) ==
    /\ last.ret = 0
    /\ regs = [last.old EXCEPT ![7 + last.id] =
                  BitOr(BitAnd(last.old[7 + last.id], 248), code)]

RampRejected ==
    /\ last.ret = -EINVAL
    /\ regs = last.old
    /\ busFails = 0

ClaimedRampCodes ==
    (230 :> 7) @@ (231 :> 6) @@ (470 :> 6) @@ (471 :> 5) @@ (3800 :> 2) @@
    (3801 :> 2) @@ (30000 :> 0)

C11_RampTableAsClaimed ==
    (last.op = "set_ramp" /\ busFails = 0) =>
        /\ last.arg \in DOMAIN ClaimedRampCodes =>
              RampWritten(ClaimedRampCodes[last.arg])
        /\ last.arg = 30001 => RampRejected

(***************************************************************************)
(* C11 (amended): set_ramp_rate maps the inputs 230, 231, 470, 471, 3800,  *)
(* 3801, 30000 to the hardware codes 0x07, 0x06, 0x06, 0x05, 0x03, 0x02,   *)
(* 0x00, written into bits 2..0 of register 0x07 + id with the other bits  *)
(* kept, and input 30001 yields an error with no register write.           *)
(***************************************************************************)
ActualRampCodes == [ClaimedRampCodes EXCEPT ![3800] = 3]

C11_RampTable ==
    (last.op = "set_ramp" /\ busFails = 0) =>
        /\ last.arg \in DOMAIN ActualRampCodes =>
              RampWritten(ActualRampCodes[last.arg])
        /\ last.arg = 30001 => RampRejected

\* set_ramp_rate(3800) on rail 5 succeeded
C11_Witness ==
    /\ last.op = "set_ramp"
    /\ last.arg = 3800
    /\ last.id = 5
    /\ last.ret = 0
    /\ BitAnd(regs[7 + last.id], 7) = 3

(***************************************************************************)
(* C12: for every rail and every selector s in 0..118, set_voltage(s)      *)
(* followed by get_voltage_selector() returns s when no other write to     *)
(* that rail's register intervenes, regardless of the rail's enable bit,   *)
(* and set_voltage leaves the enable bit as it was.                        *)
(***************************************************************************)
C12_VoltageRoundTrip ==
    /\ (/\ last.op = "set_voltage"
        /\ last.ret = 0
        /\ last.arg <= LP8755_BUCK_LINEAR_OUT_MAX)
       => /\ lp8755_get_voltage_buck_sel(regs, last.id, TRUE) = last.arg
          /\ BitAnd(regs[LP8755_REG_BUCK(last.id)], LP8755_BUCK_EN_M)
               = BitAnd(last.old[LP8755_REG_BUCK(last.id)], LP8755_BUCK_EN_M)
    /\ (/\ last.op = "get_voltage"
        /\ busFails = 0
        /\ last.arg <= LP8755_BUCK_LINEAR_OUT_MAX)
       => /\ last.ret = last.arg
          /\ regs = last.old

\* selector 118 was set on an enabled rail 4 and read back
C12_Witness ==
    /\ last.op = "get_voltage"
    /\ last.id = 4
    /\ last.arg = LP8755_BUCK_LINEAR_OUT_MAX
    /\ last.ret = LP8755_BUCK_LINEAR_OUT_MAX
    /\ BitAnd(regs[LP8755_REG_BUCK(4)], LP8755_BUCK_EN_M) # 0

(***************************************************************************)
(* C13: for every rail, enable() followed by is_enabled() returns true and *)
(* disable() followed by is_enabled() returns false; repeating enable or   *)
(* disable leaves the register exactly as after the first call, and        *)
(* neither changes the rail's voltage selector.                            *)
(***************************************************************************)
C13_EnableDisable ==
    /\ (last.op = "enable" /\ last.ret = 0) =>
          /\ lp8755_is_enabled_buck(regs, last.id, TRUE, 0) = 1
          /\ lp8755_enable_buck(regs, last.id, TRUE).rf = regs
          /\ lp8755_is_enabled_buck(last.old, last.id, TRUE, 0) = 1
                => regs = last.old
    /\ (last.op = "disable" /\ last.ret = 0) =>
          /\ lp8755_is_enabled_buck(regs, last.id, TRUE, 0) = 0
          /\ lp8755_disable_buck(regs, last.id, TRUE).rf = regs
          /\ lp8755_is_enabled_buck(last.old, last.id, TRUE, 0) = 0
                => regs = last.old
    /\ (last.op \in {"enable", "disable"} /\ last.ret = 0) =>
          /\ lp8755_get_voltage_buck_sel(regs, last.id, TRUE)
               = lp8755_get_voltage_buck_sel(last.old, last.id, TRUE)
          /\ \A a \in RegAddrs \ {LP8755_REG_BUCK(last.id)} :
                regs[a] = last.old[a]
    /\ (last.op = "is_enabled" /\ busFails = 0) =>
          /\ last.ret = last.arg
          /\ regs = last.old

\* rail 2, disabled at first with selector 90, was enabled twice
C13_Witness ==
    /\ last.op = "enable"
    /\ last.id = 2
    /\ last.ret = 0
    /\ nops = 2
    /\ busFails = 0
    /\ regs[REG_GENERAL] = 90
    /\ last.old[LP8755_REG_BUCK(2)] = LP8755_BUCK_EN_M + 90
    /\ regs[LP8755_REG_BUCK(2)] = LP8755_BUCK_EN_M + 90

(***************************************************************************)
(* C20: every selector the rail accepts (0..118) maps, by                  *)
(* microvolts(selector) = 500000 + 10000*selector, to a voltage inside the *)
(* rail's default constraint bounds of 500,000 to 1,675,000 micro-volts,   *)
(* and every selector >= 119 is rejected by the selector-to-microvolt      *)
(* listing.  (Fails: selector 118 lists 1,680,000.)                        *)
(***************************************************************************)
C20_ListedVoltageInBounds ==
    last.op = "list_voltage" =>
        IF last.arg <= LP8755_BUCK_LINEAR_OUT_MAX
        THEN /\ last.ret = 500000 + 10000 * last.arg
             /\ last.ret >= MIN_UV
             /\ last.ret <= MAX_UV
        ELSE last.ret = -EINVAL

(***************************************************************************)
(* C14: no bus error is silently swallowed: every rail-controller          *)
(* operation other than is_enabled, and every bus transaction issued by    *)
(* bring-up and teardown, reports a failed bus transaction to its caller   *)
(* as an error rather than returning a normal result or continuing as if   *)
(* it had succeeded.  Stated for bring-up and teardown: neither ends in    *)
(* success after one of its bus transactions failed.  (Fails: bring-up     *)
(* drops the result of lp8755_buck_set_ramp, teardown that of              *)
(* lp8755_write.)                                                          *)
(***************************************************************************)
FailedBusEntries ==
    { k \in DOMAIN ltrace :
        /\ ltrace[k].op \in {"set_ramp", "read", "write"}
        /\ ltrace[k].val = -EIO }

C14_NoBusErrorSwallowed ==
    (pc \in {"Active", "Detached"}) => FailedBusEntries = {}

(***************************************************************************)
(* C15: teardown performs its steps in the order rail deregistration, then *)
(* output disable, then interrupt disarming: it writes zero to all six     *)
(* enable-register addresses (0x00..0x05) for every topology code,         *)
(* regardless of how many rails were active, only after all                *)
(* deregistrations, and it disarms the interrupt line after those writes   *)
(* if and only if a line was armed.                                        *)
(***************************************************************************)
C15_TeardownOrder ==
    /\ pc = "remove_disable" =>
          /\ LPos("write") = {}
          /\ LPos("free_irq") = {}
          /\ armed = (irq # 0)
    /\ pc = "remove_irq" =>
          /\ LPos("free_irq") = {}
          /\ armed = (irq # 0)
    /\ pc \in {"remove_irq", "Detached"} =>
          /\ LIds("write") = <<0, 1, 2, 3, 4, 5>>
          /\ \A k \in LPos("write") :
                /\ ltrace[k].val = 0 => regs[ltrace[k].id] = 0
                /\ \A j \in LPos("unregister") : j < k
                /\ \A j \in LPos("free_irq") : k < j
    /\ pc = "Detached" =>
          /\ ~armed
          /\ Cardinality(LPos("free_irq")) = (IF irq # 0 THEN 1 ELSE 0)

\* the single rail of code 6 was deregistered, the six registers written
\* and the armed line freed
C15_Witness ==
    /\ pc = "Detached"
    /\ mphase = 6
    /\ irq # 0
    /\ LIds("unregister") = <<0>>
    /\ LPos("free_irq") # {}
    /\ \A a \in 0 .. 5 : regs[a] = 0

(***************************************************************************)
(* C17: in every reachable state the set of registered rails is a subset   *)
(* of the rails the current topology code lists as active, and after a     *)
(* successful bring-up it is exactly that set, the rails having been       *)
(* registered in resolution order (for code 6 exactly the one rail 0).     *)
(* (Fails for the codes 9..15, which bring-up does not reject.)            *)
(***************************************************************************)
ActiveRails(code) ==
    IF code < MPHASE_CONF_MAX THEN SeqRange(ResolutionOrder(code)) ELSE {}

C17_RegisteredAreActive ==
    /\ registered \subseteq ActiveRails(mphase)
    /\ pc = "Active" =>
          /\ registered = ActiveRails(mphase)
          /\ mphase < MPHASE_CONF_MAX
          /\ LIds("register") = ResolutionOrder(mphase)

(***************************************************************************)
(* C18: for every topology code 0..8 the topology table yields a           *)
(* non-empty, duplicate-free list of rail identifiers, each in 0..5, whose *)
(* length equals the entry's rail count; code 0 yields {0,3,5}, code 1     *)
(* yields all six rails and code 6 yields {0}.  Stated of the entry of     *)
(* the code in use, which ranges over 0..8.                                *)
(***************************************************************************)
C18_TopologyTable ==
    mphase < MPHASE_CONF_MAX =>
        LET e == MphaseEntry(mphase)
            listed == SubSeq(e.buck_num, 1, e.nreg)
        IN  /\ e.nreg \in 1 .. LP8755_BUCK_MAX
            /\ Len(e.buck_num) = LP8755_BUCK_MAX
            /\ \A j \in DOMAIN listed : listed[j] \in Bucks
            /\ \A j, k \in DOMAIN listed : j # k => listed[j] # listed[k]
            /\ \A j \in DOMAIN e.buck_num : j > e.nreg => e.buck_num[j] = 0
            /\ Cardinality(SeqRange(listed)) = e.nreg
            /\ mphase = 0 => SeqRange(listed) = {0, 3, 5}
            /\ mphase = 1 => SeqRange(listed) = Bucks
            /\ mphase = 6 => SeqRange(listed) = {0}

\* bring-up with code 8 has registered the four rails the table lists
C18_Witness ==
    /\ pc = "Active"
    /\ mphase = 8
    /\ registered = {0, 2, 3, 5}

(***************************************************************************)
(* C19: the register footprints of rail operations and of the interrupt    *)
(* handler are disjoint: no rail operation on any rail 0..5 reads or       *)
(* writes status-register-A (0x0D) or status-register-B (0x0E).  Stated    *)
(* of the writes: a rail operation leaves both registers as they were.     *)
(* (Fails: the control register of rail 5, 0x08 + 5, is 0x0D.)             *)
(***************************************************************************)
C19_RailOpsKeepStatusRegisters ==
    last.op \in {"set_mode", "get_mode", "set_voltage"} =>
        /\ regs[REG_FLAG0] = last.old[REG_FLAG0]
        /\ regs[REG_FLAG1] = last.old[REG_FLAG1]

(***************************************************************************)
(* C16: when set_mode operations on two different rails (or a set_mode and *)
(* any other masked update of a shared register) run concurrently, no      *)
(* update is lost in any interleaving: after both complete, each rail's    *)
(* bit in the global forced-mode register has the value that rail's own    *)
(* set_mode wrote, and so has every other field either caller updated.     *)
(***************************************************************************)
C16_NoLostUpdate ==
    (\A t \in ConcThreads : threads.th[t].phase = "done") =>
        \A t \in ConcThreads :
            LET me == threads.th[t]
            IN  /\ \A j \in DOMAIN me.ups :
                      BitAnd(regs[me.ups[j].reg], me.ups[j].mask)
                         = BitAnd(me.ups[j].val, me.ups[j].mask)
                /\ me.op = "set_mode" =>
                      Bit(regs[REG_FPWM], me.id)
                         = (me.arg = REGULATOR_MODE_FAST)

\* caller 2 set rail 1 to Fast while caller 1 was in the middle of setting
\* rail 0 to Idle; both returned
C16_Witness ==
    /\ \A t \in ConcThreads : threads.th[t].phase = "done"
    /\ threads.th[1].op = "set_mode" /\ threads.th[1].id = 0
    /\ threads.th[1].arg = REGULATOR_MODE_IDLE
    /\ threads.th[2].op = "set_mode" /\ threads.th[2].id = 1
    /\ threads.th[2].arg = REGULATOR_MODE_FAST
    /\ threads.th[2].mid
    /\ regs[REG_GENERAL] = 255

====
